---- MODULE Spec2Model ----
(***************************************************************************)
(* Model of backend/main.py: the upload / chat / info / health handlers of *)
(* the legal-document explainer, the in-memory document_store, the PDF     *)
(* text extraction and the normalisation of the external model's reply.    *)
(*                                                                         *)
(* Strings are sequences of one-character strings.  In a reply of the      *)
(* external model a JSON string literal or number is one symbol of the     *)
(* sequence (a lexeme); everything else is a character.  An Optional[str]  *)
(* that is None and one that is "" are both the empty sequence: the code   *)
(* only tests their truthiness.                                            *)
(***************************************************************************)
EXTENDS Integers, Sequences, FiniteSets, TLC

\* ------------------------------------------------------------------ bounds
MaxTime == 1        \* the clock stops advancing after this many seconds
MaxUploads == 2     \* upload requests handled in one run of the process

\* ------------------------------------------------------- program constants
MAX_FILE_SIZE == 10485760      \* 10 * 1024 * 1024
MIN_TEXT_LENGTH == 50
HASH_PREFIX_LENGTH == 1000
HASH_MODULUS == 10000
PREVIEW_LENGTH == 200
MAX_PROMPT_CHARS == 25000

\* ----------------------------------------------------------- str methods
Rep(c, n) == [i \in 1..n |-> c]

IsSpace(c) == c \in {" ", "\n"}

\* str.strip()
strip(s) ==
  IF \A i \in 1..Len(s) : IsSpace(s[i]) THEN <<>>
  ELSE LET lo == CHOOSE i \in 1..Len(s) :
                   ~IsSpace(s[i]) /\ \A j \in 1..(i - 1) : IsSpace(s[j])
           hi == CHOOSE i \in 1..Len(s) :
                   ~IsSpace(s[i]) /\ \A j \in (i + 1)..Len(s) : IsSpace(s[j])
       IN SubSeq(s, lo, hi)

\* str.startswith(p)
startswith(s, p) == Len(s) >= Len(p) /\ SubSeq(s, 1, Len(p)) = p

\* str.endswith(p)
endswith(s, p) == Len(s) >= Len(p) /\ SubSeq(s, Len(s) - Len(p) + 1, Len(s)) = p

LowerOf(c) ==
  IF c = "P" THEN "p" ELSE IF c = "D" THEN "d" ELSE IF c = "F" THEN "f"
  ELSE IF c = "B" THEN "b" ELSE c

\* str.lower()
lower(s) == [i \in 1..Len(s) |-> LowerOf(s[i])]

\* s[:n]
Prefix(s, n) == IF Len(s) > n THEN SubSeq(s, 1, n) ELSE s

\* the backquote character (a TLA+ string cannot hold one)
BQ == "BACKQUOTE"
FENCE == <<BQ, BQ, BQ>>
FENCE_JSON == <<BQ, BQ, BQ, "j", "s", "o", "n">>
DOT_PDF == <<".", "p", "d", "f">>

\* ------------------------------------------------------------ json.loads
\* A parsed JSON value.  t is its type; s the content of a string or the
\* lexeme of a number; items the elements of an array; fields the members of
\* an object (a function from key to value).
JValue(t, s, items, fields) == [t |-> t, s |-> s, items |-> items, fields |-> fields]
JNull == JValue("null", "", <<>>, <<>>)
JNum(lexeme) == JValue("num", lexeme, <<>>, <<>>)
JStr(content) == JValue("str", content, <<>>, <<>>)
JArr(items) == JValue("arr", "", items, <<>>)
JObj(fields) == JValue("obj", "", <<>>, fields)

\* The string literals that occur in replies, and the str each denotes.
StringLexemes ==
  {"\"summary\"", "\"key_clauses\"", "\"obligations\"", "\"risks\"",
   "\"unusual_terms\"", "\"clause\"", "\"S\"", "\"T\""}

StringContent(lexeme) ==
  CASE lexeme = "\"summary\"" -> "summary"
    [] lexeme = "\"key_clauses\"" -> "key_clauses"
    [] lexeme = "\"obligations\"" -> "obligations"
    [] lexeme = "\"risks\"" -> "risks"
    [] lexeme = "\"unusual_terms\"" -> "unusual_terms"
    [] lexeme = "\"clause\"" -> "clause"
    [] lexeme = "\"S\"" -> "S"
    [] lexeme = "\"T\"" -> "T"

\* The numbers that occur in replies; json.loads also accepts the constant
\* NaN, as a float.
NumberLexemes == {"1", "NaN"}

ParseFail == [ok |-> FALSE, v |-> JNull, next |-> 0]
ParseOk(v, next) == [ok |-> TRUE, v |-> v, next |-> next]

\* the first position at or after i that holds no whitespace
SkipWs(s, i) ==
  CHOOSE j \in i..(Len(s) + 1) :
    /\ j = Len(s) + 1 \/ ~IsSpace(s[j])
    /\ \A k \in i..(j - 1) : IsSpace(s[k])

RECURSIVE ParseValue(_, _)
RECURSIVE ParseElements(_, _, _)
RECURSIVE ParseMembers(_, _, _)

ParseValue(s, i0) ==
  LET i == SkipWs(s, i0)
  IN IF i > Len(s) THEN ParseFail
     ELSE IF s[i] = "null" THEN ParseOk(JNull, i + 1)
     ELSE IF s[i] \in NumberLexemes THEN ParseOk(JNum(s[i]), i + 1)
     ELSE IF s[i] \in StringLexemes THEN ParseOk(JStr(StringContent(s[i])), i + 1)
     ELSE IF s[i] = "[" THEN
       LET j == SkipWs(s, i + 1)
       IN IF j <= Len(s) /\ s[j] = "]" THEN ParseOk(JArr(<<>>), j + 1)
          ELSE ParseElements(s, i + 1, <<>>)
     ELSE IF s[i] = "{" THEN
       LET j == SkipWs(s, i + 1)
       IN IF j <= Len(s) /\ s[j] = "}" THEN ParseOk(JObj(<<>>), j + 1)
          ELSE ParseMembers(s, i + 1, <<>>)
     ELSE ParseFail

ParseElements(s, i, acc) ==
  LET r == ParseValue(s, i)
  IN IF ~r.ok THEN ParseFail
     ELSE LET j == SkipWs(s, r.next)
          IN IF j > Len(s) THEN ParseFail
             ELSE IF s[j] = "," THEN ParseElements(s, j + 1, Append(acc, r.v))
             ELSE IF s[j] = "]" THEN ParseOk(JArr(Append(acc, r.v)), j + 1)
             ELSE ParseFail

\* a later member with the same key replaces the earlier one, as in a dict
ParseMembers(s, i0, acc) ==
  LET i == SkipWs(s, i0)
  IN IF i > Len(s) \/ s[i] \notin StringLexemes THEN ParseFail
     ELSE LET c == SkipWs(s, i + 1)
          IN IF c > Len(s) \/ s[c] # ":" THEN ParseFail
             ELSE LET r == ParseValue(s, c + 1)
                  IN IF ~r.ok THEN ParseFail
                     ELSE LET acc2 == (StringContent(s[i]) :> r.v) @@ acc
                              j == SkipWs(s, r.next)
                          IN IF j > Len(s) THEN ParseFail
                             ELSE IF s[j] = "," THEN ParseMembers(s, j + 1, acc2)
                             ELSE IF s[j] = "}" THEN ParseOk(JObj(acc2), j + 1)
                             ELSE ParseFail

\* Variant of json_loads that stops at the end of the first value, as
\* JSONDecoder.raw_decode does, and so accepts a value followed by more.
json_raw_decode(s) ==
  ParseValue(s, 1)

\* json.loads(s): ok = FALSE stands for json.JSONDecodeError
json_loads(s) ==
  LET r == ParseValue(s, 1)
  IN IF ~r.ok THEN ParseFail
     ELSE IF SkipWs(s, r.next) <= Len(s) THEN ParseFail
     ELSE r

\* ------------------------------------------------ response normalisation
\* "Clean the response": strip, drop a leading ```json and/or ```, drop a
\* trailing ```, strip again.
CleanResponse(text) ==
  LET t0 == strip(text)
      t1 == IF startswith(t0, FENCE_JSON) THEN SubSeq(t0, 8, Len(t0)) ELSE t0
      t2 == IF startswith(t1, FENCE) THEN SubSeq(t1, 4, Len(t1)) ELSE t1
      t3 == IF endswith(t2, FENCE) THEN SubSeq(t2, 1, Len(t2) - 3) ELSE t2
  IN strip(t3)

\* --------------------------------------------------- DocumentAnalysis
\* Field validation of the pydantic model.  lax is the build's coercion of
\* a number to str (done by pydantic 1, refused by pydantic 2).
ValidStr(v, lax) == v.t = "str" \/ (lax /\ v.t = "num")

ValidDict(v, lax) ==
  v.t = "obj" /\ \A k \in DOMAIN v.fields : ValidStr(v.fields[k], lax)

ValidList(v, lax) ==
  v.t = "arr" /\ \A i \in 1..Len(v.items) : ValidDict(v.items[i], lax)

DictOf(v) == [k \in DOMAIN v.fields |-> v.fields[k].s]

ListOf(v) == [i \in 1..Len(v.items) |-> DictOf(v.items[i])]

DocumentAnalysis(summary, key_clauses, obligations, risks, unusual_terms) ==
  [summary |-> summary, key_clauses |-> key_clauses, obligations |-> obligations,
   risks |-> risks, unusual_terms |-> unusual_terms]

\* the record returned on json.JSONDecodeError
ParseFallback ==
  DocumentAnalysis(
    "The document has been processed. The AI analysis is available through the chat feature.",
    <<[clause |-> "Document Processed",
       explanation |-> "Use the chat feature to ask about specific clauses",
       location |-> "Throughout document"]>>,
    <<[party |-> "Document parties", obligation |-> "Refer to original document",
       consequence |-> "Use chat for specific details"]>>,
    <<[type |-> "General", description |-> "Use chat to identify specific risks",
       severity |-> "Medium"]>>,
    <<[term |-> "Various", explanation |-> "Chat with AI to identify unusual terms",
       recommendation |-> "Review document carefully"]>>)

\* the record returned on any other exception
InfraFallback ==
  DocumentAnalysis(
    "Document uploaded successfully. AI analysis encountered an issue, but you can still chat about the document.",
    <<[clause |-> "Upload Successful",
       explanation |-> "Document processed, use chat for analysis",
       location |-> "N/A"]>>,
    <<[party |-> "User", obligation |-> "Use chat feature for detailed analysis",
       consequence |-> "Limited automated analysis"]>>,
    <<[type |-> "Technical", description |-> "AI analysis partially unavailable",
       severity |-> "Low"]>>,
    <<[term |-> "Processing", explanation |-> "Use chat feature for detailed term analysis",
       recommendation |-> "Ask specific questions"]>>)

DEFAULT_SUMMARY == "Document analysis completed."

\* Variant of dict_get that is dict.get(key): None for an absent key.
dict_get_none(fields, key, default) ==
  IF key \in DOMAIN fields THEN fields[key] ELSE JNull

\* dict.get(key, default)
dict_get(fields, key, default) ==
  IF key \in DOMAIN fields THEN fields[key] ELSE default

\* The inner try of analyze_document_with_gemini, once json.loads returned
\* analysis_data: a value without .get (AttributeError) and a field the
\* pydantic model refuses (ValidationError) both reach "except Exception".
BuildAnalysis(analysis_data, lax) ==
  IF analysis_data.t # "obj" THEN InfraFallback
  ELSE LET summary == dict_get(analysis_data.fields, "summary", JStr(DEFAULT_SUMMARY))
           key_clauses == dict_get(analysis_data.fields, "key_clauses", JArr(<<>>))
           obligations == dict_get(analysis_data.fields, "obligations", JArr(<<>>))
           risks == dict_get(analysis_data.fields, "risks", JArr(<<>>))
           unusual_terms == dict_get(analysis_data.fields, "unusual_terms", JArr(<<>>))
       IN IF /\ ValidStr(summary, lax)
             /\ ValidList(key_clauses, lax)
             /\ ValidList(obligations, lax)
             /\ ValidList(risks, lax)
             /\ ValidList(unusual_terms, lax)
          THEN DocumentAnalysis(summary.s, ListOf(key_clauses), ListOf(obligations),
                                ListOf(risks), ListOf(unusual_terms))
          ELSE InfraFallback

\* An outcome of model.generate_content(prompt) followed by response.text:
\* an exception, or the reply's text.
GenRaises == [raises |-> TRUE, text |-> <<>>]
GenReturns(text) == [raises |-> FALSE, text |-> text]

NoAnalysis == DocumentAnalysis("", <<>>, <<>>, <<>>, <<>>)

\* Variant of analyze_document_with_gemini without the outer "except
\* Exception": an exception of the external call leaves the function.
analyze_without_catch(text, api_key, lax, gen) ==
  IF ~api_key \/ gen.raises
  THEN [http_error |-> 500, generate_called |-> api_key, analysis |-> NoAnalysis,
        limited_text |-> <<>>]
  ELSE [http_error |-> 0, generate_called |-> TRUE,
        limited_text |-> Prefix(text, MAX_PROMPT_CHARS),
        analysis |->
          LET parsed == json_loads(CleanResponse(gen.text))
          IN IF ~parsed.ok THEN ParseFallback
             ELSE BuildAnalysis(parsed.v, lax)]

\* analyze_document_with_gemini(text).  limited_text is the part of the
\* document put in the prompt; gen is any outcome of the call.
\* http_error = 500 stands for the HTTPException raised before the try.
analyze_document_with_gemini(text, api_key, lax, gen) ==
  IF ~api_key
  THEN [http_error |-> 500, generate_called |-> FALSE, analysis |-> NoAnalysis,
        limited_text |-> <<>>]
  ELSE [http_error |-> 0, generate_called |-> TRUE,
        limited_text |-> Prefix(text, MAX_PROMPT_CHARS),
        analysis |->
          IF gen.raises THEN InfraFallback
          ELSE LET parsed == json_loads(CleanResponse(gen.text))
               IN IF ~parsed.ok THEN ParseFallback
                  ELSE BuildAnalysis(parsed.v, lax)]

\* ------------------------------------------------------ text extraction
\* A PDF as PyPDF2 sees it: unreadable (PdfReader raises), or its pages, each
\* yielding text or failing in extract_text().
Page(text) == [ok |-> TRUE, text |-> text]
BadPage == [ok |-> FALSE, text |-> <<>>]
Pdf(pages) == [readable |-> TRUE, pages |-> pages]
BadPdf == [readable |-> FALSE, pages |-> <<>>]

RECURSIVE JoinPages(_, _)
\* the loop over pdf_reader.pages: text += page_text + "\n", a failing page skipped
JoinPages(pages, i) ==
  IF i > Len(pages) THEN <<>>
  ELSE (IF pages[i].ok THEN pages[i].text \o <<"\n">> ELSE <<>>) \o JoinPages(pages, i + 1)

\* extract_text_from_pdf(file_content): http_error = 400 on any exception
extract_text_from_pdf(pdf) ==
  IF ~pdf.readable THEN [http_error |-> 400, text |-> <<>>]
  ELSE LET text == JoinPages(pdf.pages, 1)
           extracted_length == Len(strip(text))
       IN IF extracted_length = 0 THEN [http_error |-> 400, text |-> <<>>]
          ELSE [http_error |-> 0, text |-> strip(text)]

\* ------------------------------------------------------- document_store
EmptyStore == <<>>

\* document_store[doc_id] = record
StorePut(store, doc_id, record) == (doc_id :> record) @@ store

\* del document_store[doc_id]
StoreDel(store, doc_id) == [d \in (DOMAIN store) \ {doc_id} |-> store[d]]

Abs(n) == IF n < 0 THEN -n ELSE n

\* f"doc_{datetime.now().strftime('%Y%m%d_%H%M%S')}_{abs(hash(document_text[:1000])) % 10000}"
\* t is the clock's second, hash the process's str hash.
DocId(t, document_text, hash) ==
  <<"doc", t,
    Abs(hash[Prefix(document_text, HASH_PREFIX_LENGTH)]) % HASH_MODULUS>>

\* ------------------------------------------------------ upload_document
FilenameMissing(filename) == Len(filename) = 0

NotPdfName(filename) == ~endswith(lower(filename), DOT_PDF)

\* Variant of EmptyFile that lets a file of no bytes pass.
EmptyFileNegative(file_size) == file_size < 0

EmptyFile(file_size) == file_size = 0

\* Variant of TooLarge that also refuses a file of exactly the largest size.
TooLargeOrEqual(file_size) == file_size >= MAX_FILE_SIZE

TooLarge(file_size) == file_size > MAX_FILE_SIZE

\* Variant of InsufficientText that accepts one character less.
InsufficientTextOffByOne(document_text) ==
  Len(strip(document_text)) < MIN_TEXT_LENGTH - 1

InsufficientText(document_text) == Len(strip(document_text)) < MIN_TEXT_LENGTH

NoUploadBody ==
  [document_id |-> <<>>, filename |-> <<>>, analysis |-> NoAnalysis, text_length |-> 0]

\* An upload that ends in an HTTPException.  called holds the names of what
\* the handler called before: "read" (file.read), "extract_text_from_pdf",
\* "hash", "generate_content".
UploadError(status, detail, store, called) ==
  [status |-> status, detail |-> detail, body |-> NoUploadBody, store |-> store,
   called |-> called, hashed |-> <<>>, prompt_chars |-> 0]

\* "except Exception": clean up the stored document if doc_id is bound and in
\* the store, then answer 500.
UnexpectedError(store, doc_id_bound, doc_id, called) ==
  UploadError(500, "An unexpected error occurred while processing your document.",
              IF doc_id_bound /\ doc_id \in DOMAIN store THEN StoreDel(store, doc_id)
              ELSE store,
              called)

\* The part of upload_document after the text was extracted, lines 242-268:
\* generate the id, store the record, analyze, answer.
upload_store_and_analyze(store, api_key, lax, hash, t, filename, file_size, document_text, gen) ==
  LET doc_id == DocId(t, document_text, hash)
      stored == StorePut(store, doc_id,
                         [text |-> document_text, filename |-> filename,
                          upload_time |-> t, file_size |-> file_size])
      result == analyze_document_with_gemini(document_text, api_key, lax, gen)
      called == {"read", "extract_text_from_pdf", "hash"}
                  \cup (IF result.generate_called THEN {"generate_content"} ELSE {})
      hashed == Prefix(document_text, HASH_PREFIX_LENGTH)
  IN IF result.http_error # 0
     \* "except HTTPException: raise": the record stays in the store
     THEN [UploadError(result.http_error, "Gemini API key not configured.",
                       stored, called) EXCEPT !.hashed = hashed]
     ELSE [status |-> 200, detail |-> "",
           body |-> [document_id |-> doc_id, filename |-> filename,
                     analysis |-> result.analysis,
                     text_length |-> Len(document_text)],
           store |-> stored, called |-> called, hashed |-> hashed,
           prompt_chars |-> Len(result.limited_text)]

\* The part of upload_document up to the extracted text, lines 207-240:
\* either the request is refused (refused, with the answer in error), or
\* document_text is what the rest of the handler works on.
upload_validate(store, filename, file) ==
  LET Refuse(out) == [refused |-> TRUE, error |-> out, document_text |-> <<>>]
  IN IF FilenameMissing(filename)
     THEN Refuse(UploadError(400, "No file selected", store, {}))
     ELSE IF NotPdfName(filename)
     THEN Refuse(UploadError(400, "Only PDF files are supported", store, {}))
     ELSE IF file.read_fails
     THEN Refuse(UnexpectedError(store, FALSE, <<>>, {"read"}))
     ELSE IF EmptyFile(file.size)
     THEN Refuse(UploadError(400, "The uploaded file is empty", store, {"read"}))
     ELSE IF TooLarge(file.size)
     THEN Refuse(UploadError(400, "File size must be less than 10MB", store, {"read"}))
     ELSE
       LET extracted == extract_text_from_pdf(file.pdf)
       IN IF extracted.http_error # 0
          THEN Refuse(UploadError(extracted.http_error, "Error extracting text from PDF",
                                  store, {"read", "extract_text_from_pdf"}))
          ELSE IF InsufficientText(extracted.text)
          THEN Refuse(UploadError(400, "Document appears to contain insufficient text.",
                                  store, {"read", "extract_text_from_pdf"}))
          ELSE [refused |-> FALSE, error |-> UploadError(0, "", store, {}),
                document_text |-> extracted.text]

\* upload_document(file), on the store as it is, at time t.  file is what
\* file.read() does (raise, or return size bytes that hold pdf), hash the
\* process's hash() and gen the outcome of the external call, should the
\* handler get to any of them.
upload_document(store, api_key, lax, hash, t, filename, file, gen) ==
  LET checked == upload_validate(store, filename, file)
  IN IF checked.refused THEN checked.error
     ELSE upload_store_and_analyze(store, api_key, lax, hash, t, filename,
                                   file.size, checked.document_text, gen)

\* --------------------------------------------------- chat_with_document
STORE_UNAVAILABLE ==
  "The document storage system is not available. Please try uploading your document again."
NOT_FOUND ==
  "I couldn't find the document you're referring to. Please try uploading your document again."
UPLOAD_FIRST == "Please upload a document first before asking questions."
CHAT_ERROR == "I encountered an error while processing your question. Please try again."

\* a ChatResponse built without the external call
FixedReply(message, t) ==
  [status |-> 200, detail |-> "",
   body |-> [response |-> [kind |-> "fixed", message |-> message, text |-> <<>>],
             timestamp |-> t],
   called |-> {}, prompt_chars |-> 0]

\* 500: the key is not configured
ChatNotConfigured(t) ==
  [status |-> 500, detail |-> "Gemini API key not configured",
   body |-> [response |-> [kind |-> "none", message |-> "", text |-> <<>>],
             timestamp |-> t],
   called |-> {}, prompt_chars |-> 0]

\* the prompt is built from document_text and the external call is made
AskModel(document_text, gen, t) ==
  [status |-> 200, detail |-> "",
   body |-> [response |->
               IF gen.raises
               THEN [kind |-> "error", message |-> CHAT_ERROR, text |-> <<>>]
               ELSE [kind |-> "reply", message |-> "", text |-> strip(gen.text)],
             timestamp |-> t],
   called |-> {"generate_content"},
   prompt_chars |-> Len(Prefix(document_text, MAX_PROMPT_CHARS))]

\* Variant of chat_with_document that looks at document_text before
\* document_id.
chat_text_first(store, api_key, t, document_id, document_text, gen) ==
  IF ~api_key THEN ChatNotConfigured(t)
  ELSE IF Len(document_text) > 0 THEN AskModel(document_text, gen, t)
  ELSE IF Len(document_id) > 0
  THEN IF DOMAIN store = {} THEN FixedReply(STORE_UNAVAILABLE, t)
       ELSE IF document_id \notin DOMAIN store THEN FixedReply(NOT_FOUND, t)
       ELSE AskModel(store[document_id].text, gen, t)
  ELSE FixedReply(UPLOAD_FIRST, t)

chat_with_document(store, api_key, t, document_id, document_text, gen) ==
  IF ~api_key THEN ChatNotConfigured(t)
  ELSE IF Len(document_id) > 0
  THEN IF DOMAIN store = {} THEN FixedReply(STORE_UNAVAILABLE, t)
       ELSE IF document_id \notin DOMAIN store THEN FixedReply(NOT_FOUND, t)
       ELSE AskModel(store[document_id].text, gen, t)
  ELSE IF Len(document_text) > 0 THEN AskModel(document_text, gen, t)
  ELSE FixedReply(UPLOAD_FIRST, t)

\* the fields of the request that chat_with_document evaluates
ChatReads(api_key, document_id) ==
  IF ~api_key THEN {}
  ELSE IF Len(document_id) > 0 THEN {"document_id"}
  ELSE {"document_id", "document_text"}

\* ---------------------------------------------------- get_document_info
ELLIPSIS == <<".", ".", ".">>

get_document_info(store, document_id) ==
  IF document_id \notin DOMAIN store
  THEN [status |-> 404, detail |-> "Document not found",
        body |-> [document_id |-> document_id, filename |-> <<>>, upload_time |-> 0,
                  text_length |-> 0, text_preview |-> <<>>]]
  ELSE LET doc_info == store[document_id]
       IN [status |-> 200, detail |-> "",
           body |-> [document_id |-> document_id,
                     filename |-> doc_info.filename,
                     upload_time |-> doc_info.upload_time,
                     text_length |-> Len(doc_info.text),
                     text_preview |->
                       IF Len(doc_info.text) > PREVIEW_LENGTH
                       THEN SubSeq(doc_info.text, 1, PREVIEW_LENGTH) \o ELLIPSIS
                       ELSE doc_info.text]]

\* ---------------------------------------------------- root, health_check
root ==
  [status |-> 200, detail |-> "",
   body |-> [message |-> "AI Legal Document Explainer API", status |-> "running"]]

\* list(document_store.keys()) is given as the set of the keys
health_check(store, api_key) ==
  [status |-> 200, detail |-> "",
   body |-> [status |-> "healthy", gemini_configured |-> api_key,
             documents_stored |-> Cardinality(DOMAIN store),
             stored_document_ids |-> DOMAIN store]]

\* ---------------------------------------------------------------- inputs
\* "a.pdf" and "B.PDF"; no filename and "a.txt"
PdfFilenames == {<<"a", ".", "p", "d", "f">>, <<"B", ".", "P", "D", "F">>}
OtherFilenames == {<<>>, <<"a", ".", "t", "x", "t">>}
Filenames == PdfFilenames \cup OtherFilenames

File(size, pdf) == [read_fails |-> FALSE, size |-> size, pdf |-> pdf]
ReadFails == [read_fails |-> TRUE, size |-> 0, pdf |-> BadPdf]

\* the 50-character text "a"*25 + "\n" + "a"*24 and a 201-character text
Text50 == Rep("a", 25) \o <<"\n">> \o Rep("a", 24)
Text201 == Rep("b", PREVIEW_LENGTH + 1)

\* PDFs of a valid size that hold Text50 (on two pages) and Text201 (on the
\* second page, the first failing; the file has exactly the largest size)
GoodFiles ==
  {File(2048, Pdf(<<Page(Rep("a", 25)), Page(Rep("a", 24))>>)),
   File(MAX_FILE_SIZE, Pdf(<<BadPage, Page(<<" ">> \o Text201 \o <<" ">>)>>))}

\* files of a valid size that are no PDF, hold only whitespace, or hold 49
\* characters of text
ShortTextFiles ==
  {File(1, BadPdf),
   File(2048, Pdf(<<Page(<<" ", "\n">>)>>)),
   File(2048, Pdf(<<Page(Rep("a", 24)), Page(Rep("a", 24))>>))}

\* an empty file and one of one byte more than the largest size
BadSizeFiles == {File(0, BadPdf), File(MAX_FILE_SIZE + 1, Pdf(<<Page(Text50)>>))}

Files == {ReadFails} \cup GoodFiles \cup ShortTextFiles \cup BadSizeFiles

\* what hash() is applied to, and the values it may take in this process
HashInputs ==
  {Prefix(extract_text_from_pdf(file.pdf).text, HASH_PREFIX_LENGTH) :
     file \in {f \in Files : extract_text_from_pdf(f.pdf).http_error = 0}}
RawHashes == {-10001, 10002}

\* the process's hash(): as known so far, and h on every other string
HashWith(known, h) ==
  [p \in HashInputs |-> IF p \in DOMAIN known THEN known[p] ELSE h]

\* an id that no upload generates
UnknownId == <<"doc", 0, 0>>

\* replies of the external model
FullObject ==
  <<"{", "\"summary\"", ":", "\"S\"", ",", " ",
    "\"key_clauses\"", ":", "[", "{", "\"clause\"", ":", "\"T\"", "}", "]", ",", "\n",
    "\"obligations\"", ":", "[", "]", ",",
    "\"risks\"", ":", "[", "{", "}", ",", "{", "\"clause\"", ":", "\"S\"", "}", "]", ",",
    "\"unusual_terms\"", ":", "[", " ", "]", "}">>

Fenced(body) == FENCE_JSON \o <<"\n">> \o body \o <<"\n">> \o FENCE

\* what may stand around the JSON in a reply
Wraps(body) ==
  {body,
   Fenced(body),
   FENCE \o <<"\n">> \o body \o <<"\n">> \o FENCE,
   <<" ", "\n">> \o body \o <<"\n", " ">>,
   FENCE_JSON \o body,
   body \o FENCE}

\* bodies that are no JSON text: nothing, prose, a truncated object, an
\* object followed by more, an array with a trailing comma, a bare word
NotJsonBodies ==
  {<<>>,
   <<"S", "o", "r", "r", "y">>,
   <<"{", "\"summary\"", ":">>,
   <<"{", "}", "x">>,
   <<"[", "1", ",", "]">>,
   <<"j", "s", "o", "n">>}

\* JSON texts that are no object
NonObjectBodies ==
  {<<"null">>, <<"1">>, <<"NaN">>, <<"\"S\"">>, <<"[", "]">>, <<"[", "{", "}", "]">>}

\* objects whose present fields have the declared types
WellTypedBodies ==
  {<<"{", "}">>,
   <<"{", "\"summary\"", ":", "\"S\"", "}">>,
   <<"{", " ", "\"risks\"", ":", "[", "{", "\"clause\"", ":", "\"T\"", "}", "]", "}">>,
   <<"{", "\"summary\"", ":", "null", ",", "\"summary\"", ":", "\"T\"", "}">>,
   FullObject}

\* objects with a field that is null or of another type than declared
IllTypedBodies ==
  {<<"{", "\"summary\"", ":", "null", "}">>,
   <<"{", "\"summary\"", ":", "[", "]", "}">>,
   <<"{", "\"risks\"", ":", "\"S\"", "}">>,
   <<"{", "\"key_clauses\"", ":", "[", "\"S\"", "]", "}">>,
   <<"{", "\"obligations\"", ":", "{", "}", "}">>,
   <<"{", "\"unusual_terms\"", ":", "[", "{", "\"clause\"", ":", "null", "}", "]", "}">>}

\* objects with a number where a str is declared
NumberForStrBodies ==
  {<<"{", "\"summary\"", ":", "1", "}">>,
   <<"{", "\"risks\"", ":", "[", "{", "\"clause\"", ":", "1", "}", "]", "}">>}

AnalyzeBodies ==
  NotJsonBodies \cup NonObjectBodies \cup WellTypedBodies \cup IllTypedBodies
    \cup NumberForStrBodies

AnalyzeOutcomes ==
  {GenRaises} \cup {GenReturns(text) : text \in UNION {Wraps(body) : body \in AnalyzeBodies}}

GenOutcomes ==
  {GenRaises,
   GenReturns(Fenced(FullObject)),
   GenReturns(<<"S", "o", "r", "r", "y">>),
   GenReturns(<<"[", "]">>)}

ChatGenOutcomes == {GenRaises, GenReturns(<<" ", "o", "k", "\n">>)}

ChatTexts == {<<>>, <<"h", "i">>}

\* ----------------------------------------------------------------- state
VARIABLES
  GEMINI_API_KEY,   \* bool(GEMINI_API_KEY): whether the key is configured
  str_hash,         \* hash() on the strings it was applied to so far
  document_store,   \* the dict: doc_id -> [text, filename, upload_time, file_size]
  now,              \* datetime.now(), to the second
  nUploads,         \* upload requests handled so far
  req,              \* the last request: what the handler read of its inputs
  resp,             \* the last response, with what the handler called
  okUploads         \* history: the uploads that returned 200

vars ==
  <<GEMINI_API_KEY, str_hash, document_store, now, nUploads, req, resp, okUploads>>

NoFile == File(0, BadPdf)

Request(op, filename, file, gen, document_id, document_text) ==
  [op |-> op, filename |-> filename, file |-> file, gen |-> gen,
   document_id |-> document_id, document_text |-> document_text]

Response(op, out, called, prompt_chars) ==
  [op |-> op, status |-> out.status, detail |-> out.detail, body |-> out.body,
   called |-> called, prompt_chars |-> prompt_chars]

Init ==
  /\ GEMINI_API_KEY \in BOOLEAN
  /\ str_hash = <<>>
  /\ document_store = EmptyStore
  /\ now = 0
  /\ nUploads = 0
  /\ req = Request("none", <<>>, NoFile, GenRaises, <<>>, <<>>)
  /\ resp = Response("none", [status |-> 0, detail |-> "", body |-> <<>>], {}, 0)
  /\ okUploads = {}

\* ---------------------------------------------------------------- actions
\* the state after upload_document has answered out
UploadDone(filename, file, gen, hash, out) ==
  /\ document_store' = out.store
  /\ str_hash' = IF "hash" \in out.called
                 THEN (out.hashed :> hash[out.hashed]) @@ str_hash
                 ELSE str_hash
  /\ req' = Request("upload", filename, file, gen, <<>>, <<>>)
  /\ resp' = Response("upload", out, out.called, out.prompt_chars)
  /\ okUploads' =
       IF out.status = 200
       THEN okUploads \cup
              {[document_id |-> out.body.document_id,
                filename |-> out.body.filename,
                text |-> out.store[out.body.document_id].text]}
       ELSE okUploads

\* POST /upload-document: upload_document on the request's inputs.  The
\* handler's two parts are run one after the other; a hash of a string not
\* hashed before, the outcome of the external call and the coercion of the
\* installed pydantic are drawn only in a request that gets to them, and a
\* file that is not read is left at its default.
UploadDocument ==
  /\ nUploads < MaxUploads
  /\ \E filename \in Filenames, file \in Files :
       \E checked \in {upload_validate(document_store, filename, file)} :
         IF checked.refused
         THEN /\ "read" \notin checked.error.called => file = NoFile
              /\ UploadDone(filename, file, GenRaises, str_hash, checked.error)
         ELSE \E document_text \in {checked.document_text} :
              \E h \in (IF Prefix(document_text, HASH_PREFIX_LENGTH) \in DOMAIN str_hash
                        THEN {0} ELSE RawHashes),
                 probe \in {upload_store_and_analyze(
                              document_store, GEMINI_API_KEY, FALSE,
                              HashWith(str_hash, 0), now, filename, file.size,
                              document_text, GenRaises)} :
                \E gen \in (IF "generate_content" \in probe.called
                             THEN GenOutcomes ELSE {GenRaises}),
                   lax \in (IF "generate_content" \in probe.called
                             THEN BOOLEAN ELSE {FALSE}),
                   hash \in {HashWith(str_hash, h)} :
                \E out \in {upload_store_and_analyze(
                               document_store, GEMINI_API_KEY, lax, hash, now,
                               filename, file.size, document_text, gen)} :
                  UploadDone(filename, file, gen, hash, out)
  /\ nUploads' = nUploads + 1
  /\ UNCHANGED <<GEMINI_API_KEY, now>>

\* POST /chat.  A request differs from another only in what the handler
\* evaluates of it: a field it does not read, and the outcome of a call it
\* does not make, are left at their defaults.
Chat ==
  /\ \E document_id \in (DOMAIN document_store) \cup {UnknownId, <<>>},
        document_text \in ChatTexts,
        gen \in ChatGenOutcomes :
       /\ "document_id" \notin ChatReads(GEMINI_API_KEY, document_id)
            => document_id = <<>>
       /\ "document_text" \notin ChatReads(GEMINI_API_KEY, document_id)
            => document_text = <<>>
       /\ \E out \in {chat_with_document(document_store, GEMINI_API_KEY, now,
                                          document_id, document_text, gen)} :
            /\ "generate_content" \notin out.called => gen = GenRaises
            /\ req' = Request("chat", <<>>, NoFile, gen, document_id, document_text)
            /\ resp' = Response("chat", out, out.called, out.prompt_chars)
  /\ UNCHANGED <<GEMINI_API_KEY, str_hash, document_store, now, nUploads, okUploads>>

\* GET /document/{document_id}
GetDocumentInfo ==
  /\ \E document_id \in (DOMAIN document_store) \cup {UnknownId} :
       /\ req' = Request("info", <<>>, NoFile, GenRaises, document_id, <<>>)
       /\ resp' = Response("info", get_document_info(document_store, document_id),
                           {}, 0)
  /\ UNCHANGED <<GEMINI_API_KEY, str_hash, document_store, now, nUploads, okUploads>>

\* GET /
Root ==
  /\ req' = Request("root", <<>>, NoFile, GenRaises, <<>>, <<>>)
  /\ resp' = Response("root", root, {}, 0)
  /\ UNCHANGED <<GEMINI_API_KEY, str_hash, document_store, now, nUploads, okUploads>>

\* GET /health
HealthCheck ==
  /\ req' = Request("health", <<>>, NoFile, GenRaises, <<>>, <<>>)
  /\ resp' = Response("health", health_check(document_store, GEMINI_API_KEY), {}, 0)
  /\ UNCHANGED <<GEMINI_API_KEY, str_hash, document_store, now, nUploads, okUploads>>

\* time passes between two requests
Tick ==
  /\ now < MaxTime
  /\ now' = now + 1
  /\ UNCHANGED <<GEMINI_API_KEY, str_hash, document_store, nUploads, req, resp,
                 okUploads>>

Next == UploadDocument \/ Chat \/ GetDocumentInfo \/ Root \/ HealthCheck \/ Tick

Spec == Init /\ [][Next]_vars

\* ------------------------------------------ the analysis on its own
\* analyze_document_with_gemini on one outcome of the external call, under
\* either behaviour of the installed pydantic
Analyze ==
  /\ \E gen \in AnalyzeOutcomes, lax \in BOOLEAN :
       \E result \in {analyze_document_with_gemini(Text50, GEMINI_API_KEY, lax, gen)} :
         /\ ~result.generate_called => gen = GenRaises /\ lax = FALSE
         /\ req' = Request("analyze", <<>>, NoFile, gen, <<>>, <<>>)
         /\ resp' = Response("analyze",
                             [status |-> IF result.http_error # 0
                                         THEN result.http_error ELSE 200,
                              detail |-> "",
                              body |-> [analysis |-> result.analysis, lax |-> lax]],
                             IF result.generate_called THEN {"generate_content"}
                             ELSE {},
                             Len(result.limited_text))
  /\ UNCHANGED <<GEMINI_API_KEY, str_hash, document_store, now, nUploads, okUploads>>

NextAnalyze == Analyze

SpecAnalyze == Init /\ [][NextAnalyze]_vars
\* ============================================================ properties
AnalysisKeys == {"summary", "key_clauses", "obligations", "risks", "unusual_terms"}

\* the last request was an upload of a PDF-named file of a valid size whose
\* text has at least 50 characters
GoodUpload == resp.op = "upload" /\ req.filename \in PdfFilenames /\ req.file \in GoodFiles

UploadBodyComplete ==
  /\ resp.status = 200
  /\ Len(resp.body.document_id) > 0
  /\ DOMAIN resp.body.analysis = AnalysisKeys

\* ---- C1
\* C1 as stated: an upload of a PDF-named file of a size in 1..10,485,760
\* whose text has at least 50 characters answers 200 with a non-empty id and
\* an analysis of the five keys, whatever the configuration.
C1_UploadAlways200 == GoodUpload => UploadBodyComplete

\* C1, amended: such an upload answers 200 with a non-empty id and an
\* analysis of the five keys when the API key is configured, whatever the
\* external call does; it answers 500 when the key is not configured.
C1_UploadOkWhenConfigured ==
  GoodUpload =>
    IF GEMINI_API_KEY
    THEN UploadBodyComplete /\ "generate_content" \in resp.called
    ELSE resp.status = 500 /\ "generate_content" \notin resp.called

C1_Witness ==
  /\ GoodUpload
  /\ GEMINI_API_KEY
  /\ req.file.size = MAX_FILE_SIZE
  /\ req.gen.raises
  /\ resp.status = 200

\* ---- C2
\* C2: when the external call raises during an upload, the analysis is the
\* fixed infrastructure fallback record (its summary says that the document
\* was uploaded and the analysis encountered an issue) and the upload
\* answers 200.
C2_GenRaisesFallback ==
  (GoodUpload /\ GEMINI_API_KEY /\ req.gen.raises) =>
    /\ resp.status = 200
    /\ resp.body.analysis = InfraFallback
    /\ resp.body.analysis.summary =
         "Document uploaded successfully. AI analysis encountered an issue, but you can still chat about the document."
    /\ Len(resp.body.analysis.key_clauses) = 1

C2_Witness ==
  /\ GoodUpload
  /\ "generate_content" \in resp.called
  /\ req.gen.raises
  /\ resp.status = 200
  /\ resp.body.document_id \in DOMAIN document_store

\* ---- C3
\* the last call was an analysis in which the external call returned a text
Analyzed == resp.op = "analyze" /\ resp.status = 200 /\ ~req.gen.raises

NotJsonReplies == UNION {Wraps(body) : body \in NotJsonBodies}

RequestIds ==
  {UnknownId} \cup {<<"doc", t, Abs(h) % HASH_MODULUS>> : t \in 0..MaxTime, h \in RawHashes}

ChatOn(document_id, document_text, gen) ==
  chat_with_document(document_store, GEMINI_API_KEY, now, document_id, document_text, gen)

ChatNotFound(out) ==
  /\ out.status = 200
  /\ out.body.response.kind = "fixed"
  /\ out.body.response.message = NOT_FOUND
  /\ "generate_content" \notin out.called

\* C4 as stated: in every state of the store, a chat request whose
\* document_id is not a key of the store answers 200 with the fixed
\* not-found text, whatever document_text it carries, and makes no external
\* call.
C4_UnknownIdAlwaysNotFound ==
  \A document_id \in RequestIds \ DOMAIN document_store,
     document_text \in ChatTexts, gen \in ChatGenOutcomes :
    ChatNotFound(ChatOn(document_id, document_text, gen))

\* C4, amended: with the API key configured, a chat request whose
\* document_id is not a key of the store makes no external call and answers
\* 200 with a fixed text, whatever document_text it carries: the not-found
\* text if the store holds a document, the storage-unavailable text if the
\* store is empty.  With the key not configured it answers 500.
C4_UnknownIdFixedReply ==
  \A document_id \in RequestIds \ DOMAIN document_store,
     document_text \in ChatTexts, gen \in ChatGenOutcomes :
    LET out == ChatOn(document_id, document_text, gen)
    IN /\ "generate_content" \notin out.called
       /\ IF ~GEMINI_API_KEY THEN out.status = 500
          ELSE IF DOMAIN document_store # {} THEN ChatNotFound(out)
          ELSE /\ out.status = 200
               /\ out.body.response.kind = "fixed"
               /\ out.body.response.message = STORE_UNAVAILABLE

C4_Witness ==
  /\ resp.op = "chat"
  /\ req.document_id = UnknownId
  /\ DOMAIN document_store # {}
  /\ ChatNotFound(resp)

\* ---- C5
\* C5: after an upload answered 200 with id d, filename f and a text t, and
\* after any later requests, GET /document/d answers 200 with filename f,
\* text_length len(t), and the preview t if len(t) <= 200, else the first
\* 200 characters of t followed by "...".
C5_InfoRoundTrip ==
  \A u \in okUploads :
    LET info == get_document_info(document_store, u.document_id)
    IN /\ info.status = 200
       /\ info.body.filename = u.filename
       /\ info.body.text_length = Len(u.text)
       /\ info.body.text_preview =
            IF Len(u.text) <= PREVIEW_LENGTH THEN u.text
            ELSE SubSeq(u.text, 1, PREVIEW_LENGTH) \o <<".", ".", ".">>

\* ---- C6
UploadStep == nUploads' # nUploads

\* C6: an upload with no filename, a filename not ending in .pdf, no bytes
\* or more than 10,485,760 bytes answers 400 before the text is extracted or
\* the external call made, and leaves the store as it was; a file of
\* exactly 10,485,760 bytes is not refused for its size.
C6_ValidationBeforeExtraction ==
  [][UploadStep =>
       /\ (req'.filename \in OtherFilenames \/ req'.file \in BadSizeFiles) =>
            /\ resp'.status = 400
            /\ resp'.called \cap {"extract_text_from_pdf", "hash", "generate_content"} = {}
            /\ document_store' = document_store
       /\ (req'.filename \in PdfFilenames /\ ~req'.file.read_fails
             /\ req'.file.size = MAX_FILE_SIZE) =>
            /\ "extract_text_from_pdf" \in resp'.called
            /\ resp'.detail # "File size must be less than 10MB"]_vars

C6_Witness ==
  /\ resp.op = "upload"
  /\ req.filename \in PdfFilenames
  /\ req.file.size = MAX_FILE_SIZE + 1
  /\ resp.status = 400
  /\ resp.called = {"read"}
  /\ DOMAIN document_store # {}

\* ---- C7
\* C7: every record in the store holds a text of at least 50 characters
\* once trimmed and a file size in 1..10,485,760; an upload whose text has
\* fewer than 50 characters answers 400.
C7_StoredRecordsValid ==
  /\ \A d \in DOMAIN document_store :
       /\ Len(strip(document_store[d].text)) >= MIN_TEXT_LENGTH
       /\ document_store[d].file_size \in 1..MAX_FILE_SIZE
  /\ (resp.op = "upload" /\ req.filename \in PdfFilenames /\ req.file \in ShortTextFiles)
       => resp.status = 400

C7_Witness ==
  /\ resp.op = "upload"
  /\ req.filename \in PdfFilenames
  /\ req.file = File(2048, Pdf(<<Page(Rep("a", 24)), Page(Rep("a", 24))>>))
  /\ resp.status = 400
  /\ \E d \in DOMAIN document_store :
       /\ Len(document_store[d].text) = MIN_TEXT_LENGTH
       /\ document_store[d].file_size = 2048

\* ---- C8
\* C8: every id in the store came from an upload that answered 200 (an
\* upload that fails after the record was stored removes it again).
C8_StoredOnlyOnSuccess ==
  \A d \in DOMAIN document_store : \E u \in okUploads : u.document_id = d

\* ---- C9
\* C9: a record, once stored, is never changed or removed: no request,
\* a later upload with the same id included, alters it.
C9_RecordsNeverMutated ==
  [][\A d \in DOMAIN document_store :
       d \in DOMAIN document_store' /\ document_store'[d] = document_store[d]]_vars

\* ---- C10
WellTypedReplies == UNION {Wraps(body) : body \in WellTypedBodies}

\* json.loads returned an object whose present fields have the declared
\* types: a str, lists of dicts of str
WellTyped(v) ==
  /\ v.t = "obj"
  /\ "summary" \in DOMAIN v.fields => v.fields["summary"].t = "str"
  /\ \A k \in (DOMAIN v.fields) \cap (AnalysisKeys \ {"summary"}) :
       /\ v.fields[k].t = "arr"
       /\ \A i \in 1..Len(v.fields[k].items) :
            /\ v.fields[k].items[i].t = "obj"
            /\ \A f \in DOMAIN v.fields[k].items[i].fields :
                 v.fields[k].items[i].fields[f].t = "str"

\* json.loads returned a value that is no object, or an object with a
\* declared field that is null
NoObjectOrNullField(v) ==
  \/ v.t # "obj"
  \/ \E k \in (DOMAIN v.fields) \cap AnalysisKeys : v.fields[k].t = "null"

\* the record of a parsed object: each field from the object, or its default
RecordOf(v) ==
  [k \in AnalysisKeys |->
     IF k \in DOMAIN v.fields
     THEN IF k = "summary" THEN v.fields[k].s
          ELSE [i \in 1..Len(v.fields[k].items) |->
                  [f \in DOMAIN v.fields[k].items[i].fields |->
                     v.fields[k].items[i].fields[f].s]]
     ELSE IF k = "summary" THEN "Document analysis completed." ELSE <<>>]

\* C10 as stated: when the cleaned reply parses as JSON, the record is built
\* from the parsed value and neither fallback record is returned, also when
\* the value is no object or has another shape than expected.
C10_ParsedNeverFallback ==
  (Analyzed /\ json_loads(CleanResponse(req.gen.text)).ok) =>
    resp.body.analysis \notin {ParseFallback, InfraFallback}

\* C10, amended: when the cleaned reply parses as a JSON object whose
\* present fields have the declared types, the record holds each field of
\* the object and the default ("Document analysis completed.", []) for each
\* absent one, and is neither fallback; when it parses as a value that is no
\* object, or as an object with a null field, the infrastructure fallback
\* record is returned.
C10_ParsedObjectOrInfraFallback ==
  Analyzed =>
    LET parsed == json_loads(CleanResponse(req.gen.text))
    IN /\ req.gen.text \in WellTypedReplies => parsed.ok /\ WellTyped(parsed.v)
       /\ (parsed.ok /\ WellTyped(parsed.v)) =>
            /\ resp.body.analysis = RecordOf(parsed.v)
            /\ resp.body.analysis \notin {ParseFallback, InfraFallback}
       /\ (parsed.ok /\ NoObjectOrNullField(parsed.v)) =>
            resp.body.analysis = InfraFallback
       /\ req.gen.text = <<"{", "}">> =>
            resp.body.analysis =
              DocumentAnalysis("Document analysis completed.", <<>>, <<>>, <<>>, <<>>)
       /\ req.gen.text = Fenced(FullObject) =>
            resp.body.analysis =
              DocumentAnalysis("S", <<[clause |-> "T"]>>, <<>>,
                               <<<<>>, [clause |-> "S"]>>, <<>>)

C10_Witness ==
  /\ Analyzed
  /\ req.gen.text = Fenced(FullObject)
  /\ resp.body.analysis.summary = "S"
  /\ Len(resp.body.analysis.risks) = 2
====
